---------------------------- MODULE Spec2Model ----------------------------
(***************************************************************************)
(* A model of main.py of ffmpeg_album_splitter: the timestamp codec        *)
(* (timestamp_to_seconds, format_time_from_seconds), the reconciliation    *)
(* of ffmpeg's silencedetect report into sound boundaries                  *)
(* (get_sound_boundaries), the grouping of sound boundaries into tracks    *)
(* (find_tracks) and the approval loop of main.                            *)
(*                                                                         *)
(* Arithmetic.  Python floats are modelled as exact fixed-point numbers:   *)
(* a time is an integer number of ticks, Scale ticks to the second.  A     *)
(* gap multiplier is an integer number of quarters (1.5 is 6).  Products   *)
(* and quotients of find_tracks are compared by cross-multiplication, so   *)
(* no rounding happens in the model; midpoints of gaps are exact because   *)
(* every gap between input times is an even number of ticks.               *)
(*                                                                         *)
(* main is modelled from the point where its argument checks have passed   *)
(* (the file exists, -em is not given); the report of get_silence_data and *)
(* the chapters of get_chapters_data are inputs; the confirm() that        *)
(* split_file_into_tracks itself may ask is part of that call.             *)
(***************************************************************************)
EXTENDS Integers, Sequences, FiniteSets, TLC

VARIABLES
    input_seconds,   \* codec: the argument of format_time_from_seconds
    timestamp,       \* codec: the text it returned, as its ':'-separated parts
    seconds_back,    \* codec: timestamp_to_seconds of that text
    silence_data,    \* the ffmpeg report, a sequence of lines
    sound_data,      \* outcome of get_sound_boundaries(silence_data)
    gap_multiplier,  \* find_tracks: multiplier of the latest call (quarters)
    tracks_data,     \* outcome of the latest find_tracks call
    prev_multiplier, \* find_tracks: multiplier of the call before the latest
    prev_tracks,     \* outcome of the call before the latest
    chapters_data,   \* main: what get_chapters_data returned, as (start, end) pairs
    pc,              \* main: position in main()
    mult_index,      \* main: index into MULTIPLIERS of the current attempt
    is_ok,           \* main: the latest answer of confirm()
    calls            \* main: the calls made so far, in order

vars == << input_seconds, timestamp, seconds_back, silence_data, sound_data,
           gap_multiplier, tracks_data, prev_multiplier, prev_tracks,
           chapters_data, pc, mult_index, is_ok, calls >>

codec_vars == << input_seconds, timestamp, seconds_back >>
tracks_vars == << gap_multiplier, tracks_data, prev_multiplier, prev_tracks >>
main_vars == << chapters_data, pc, mult_index, is_ok, calls >>

---------------------------------------------------------------------------
(* Bounds and units *)

\* grid points per hundredth of a second
SubCenti == 10
\* ticks per second
Scale == 100 * SubCenti
\* the grid step of event and interval times: half a second
Half == Scale \div 2

\* Python's None, where a number is expected
None == -1

\* codec inputs: every tick of the seconds 0..MaxSeconds and of CodecSeconds
MaxSeconds == 2
\* report bodies: at most MaxEvents lines, times 0..MaxEventTime half-seconds
MaxEvents == 3
MaxEventTime == 2
\* report headers: at most MaxDurationLines Duration lines
MaxDurationLines == 2
\* find_tracks inputs: at most MaxIntervals intervals, times 0..MaxTrackTime
\* half-seconds, multipliers 1..MaxMultiplier quarters beside main's own
MaxIntervals == 3
MaxTrackTime == 5
MaxMultiplier == 3

\* the sequences over S of length at most n
SeqsUpTo(S, n) == UNION { [1..k -> S] : k \in 0..n }

---------------------------------------------------------------------------
(* Timestamp codec *)

RECURSIVE Digits(_)
\* the decimal digits of n, as str.format renders an int
Digits(n) == IF n < 10 THEN << n >> ELSE Append(Digits(n \div 10), n % 10)

\* a mutant of Pad2: "{}", no padding
Pad2_unpadded(n) == Digits(n)

\* "{:02}": zero-padded to at least two digits
Pad2(n) == IF n < 10 THEN << 0, n >> ELSE Digits(n)

RECURSIVE DigitsToNat(_)
DigitsToNat(ds) ==
    IF ds = << >> THEN 0
    ELSE 10 * DigitsToNat(SubSeq(ds, 1, Len(ds) - 1)) + ds[Len(ds)]

RECURSIVE Pow10(_)
Pow10(k) == IF k = 0 THEN 1 ELSE 10 * Pow10(k - 1)

\* float("SS.CC") in ticks: the integer digits, plus the fraction digits
\* read as a decimal fraction
ParseFloat(part) ==
    DigitsToNat(part.int) * Scale
        + (DigitsToNat(part.frac) * Scale) \div Pow10(Len(part.frac))

\* int("MM")
ParseInt(part) == DigitsToNat(part.int)

\* timestamp_to_seconds: parts is timestamp.split(':')
timestamp_to_seconds(parts) ==
    LET n == Len(parts)
        seconds == IF n >= 1 THEN ParseFloat(parts[n]) ELSE 0
        minutes == IF n >= 2 THEN ParseInt(parts[n - 1]) ELSE 0
        hours == IF n >= 3 THEN ParseInt(parts[n - 2]) ELSE 0
    IN  seconds + minutes * 60 * Scale + hours * 60 * 60 * Scale

\* int(math.modf(input_seconds)[0]*100): the hundredths, truncated
Hundredths(s) == ((s % Scale) * 100) \div Scale

\* format_time_from_seconds: "HH:MM:SS.CC" as its ':'-separated parts
format_time_from_seconds(s) ==
    LET hours == s \div (60 * 60 * Scale)
        minutes == (s \div (60 * Scale)) % 60
        seconds == (s % (60 * Scale)) \div Scale
        milliseconds == Hundredths(s)
    IN  << [int |-> Pad2(hours), frac |-> << >>],
           [int |-> Pad2(minutes), frac |-> << >>],
           [int |-> Pad2(seconds), frac |-> Pad2(milliseconds)] >>

---------------------------------------------------------------------------
(* The ffmpeg report *)

\* Interval = namedtuple('Interval', ['start', 'end', 'duration'])
Interval(start, end, duration) ==
    [start |-> start, end |-> end, duration |-> duration]

\* "[silencedetect @ ...] silence_start: <time>"
StartLine(time) ==
    [kind |-> "silence_start", time |-> time, duration |-> None, text |-> << >>]

\* "[silencedetect @ ...] silence_end: <time> | silence_duration: <duration>"
EndLine(time, duration) ==
    [kind |-> "silence_end", time |-> time, duration |-> duration, text |-> << >>]

\* a "[silencedetect" line with neither silence_start nor silence_end in it
UnknownLine ==
    [kind |-> "silencedetect", time |-> None, duration |-> None, text |-> << >>]

\* "Duration: <text>, start: 0.000000, bitrate: ..."
DurationLine(text) ==
    [kind |-> "Duration", time |-> 0, duration |-> None, text |-> text]

\* any other line
OtherLine ==
    [kind |-> "other", time |-> None, duration |-> None, text |-> << >>]

---------------------------------------------------------------------------
(* get_sound_boundaries *)

\* the state before the first line is read
ParseInit ==
    [interval_data |-> << >>, file_start |-> None, file_end |-> None,
     error |-> FALSE]

\* a mutant of ParseDuration: the first Duration line wins
ParseDuration_first(acc, line) ==
    IF acc.file_end # None THEN acc
    ELSE [acc EXCEPT !.file_end = timestamp_to_seconds(line.text),
                     !.file_start = line.time]

\* a Duration line: file_end and file_start are assigned, whatever they held
ParseDuration(acc, line) ==
    [acc EXCEPT !.file_end = timestamp_to_seconds(line.text),
                !.file_start = line.time]

\* one pass of the loop over silence_data.splitlines()
ParseLine(acc, line) ==
    IF acc.error THEN acc
    ELSE IF line.kind = "silence_start" THEN
        [acc EXCEPT !.interval_data =
            Append(@, Interval(line.time, None, None))]
    ELSE IF line.kind = "silence_end" THEN
        [acc EXCEPT !.interval_data =
            Append(@, Interval(None, line.time, line.duration))]
    ELSE IF line.kind = "silencedetect" THEN
        [acc EXCEPT !.error = TRUE]
    ELSE IF line.kind = "Duration" THEN ParseDuration(acc, line)
    ELSE acc

RECURSIVE ParseLines(_, _)
\* the loop over the first n lines
ParseLines(lines, n) ==
    IF n = 0 THEN ParseInit
    ELSE ParseLine(ParseLines(lines, n - 1), lines[n])

\* Python's truth value of a float or None
Truthy(x) == x # None /\ x # 0

\* the state before the first interval is visited
BoundariesInit ==
    [sound_boundaries |-> << >>, previous_silence_start |-> None,
     previous_silence_end |-> None, error |-> FALSE]

\* the intervals appended at index (0-based) of interval_data
Emit(acc, index, interval, interval_data_len, file_end) ==
    IF index = 0 THEN
        Append(acc.sound_boundaries, << 0, interval.start >>)
    ELSE IF index = interval_data_len - 1 THEN
        IF interval.end = None
        THEN Append(acc.sound_boundaries, << acc.previous_silence_end, file_end >>)
        ELSE acc.sound_boundaries
    ELSE
        IF Truthy(interval.start)
        THEN Append(acc.sound_boundaries,
                    << acc.previous_silence_end, interval.start >>)
        ELSE acc.sound_boundaries

\* one pass of the loop over enumerate(interval_data)
BoundaryStep(acc, index, interval, interval_data_len, file_end) ==
    IF acc.error THEN acc
    ELSE IF index = 0 /\ interval.start = None THEN [acc EXCEPT !.error = TRUE]
    ELSE [acc EXCEPT
            !.sound_boundaries =
                Emit(acc, index, interval, interval_data_len, file_end),
            !.previous_silence_start =
                IF Truthy(interval.start) THEN interval.start ELSE @,
            !.previous_silence_end =
                IF ~Truthy(interval.start) /\ Truthy(interval.end)
                THEN interval.end ELSE @]

RECURSIVE BoundaryLoop(_, _, _)
\* the loop over the first n intervals
BoundaryLoop(interval_data, n, file_end) ==
    IF n = 0 THEN BoundariesInit
    ELSE BoundaryStep(BoundaryLoop(interval_data, n - 1, file_end), n - 1,
                      interval_data[n], Len(interval_data), file_end)

\* what a call returned: a value, or the exception it raised
Returned(value) == [status |-> "returned", value |-> value]
Raised(exception) == [status |-> exception, value |-> << >>]
ReturnedNone == [status |-> "returned None", value |-> << >>]
NotCalled == [status |-> "not called", value |-> << >>]

\* get_sound_boundaries(silence_data)
get_sound_boundaries(lines) ==
    LET parsed == ParseLines(lines, Len(lines))
        done == BoundaryLoop(parsed.interval_data, Len(parsed.interval_data),
                             parsed.file_end)
    IN  IF parsed.error THEN Raised("AssertionError")
        ELSE IF parsed.file_start = None \/ parsed.file_end = None
        THEN Raised("AssertionError")
        ELSE IF done.error THEN Raised("AssertionError")
        ELSE Returned(done.sound_boundaries)

---------------------------------------------------------------------------
(* find_tracks *)

RECURSIVE SumGaps(_, _)
\* sum([x[1][0] - x[0][1] for x in zip(sound_boundaries, sound_boundaries[1:])]),
\* over the first n pairs
SumGaps(sb, n) ==
    IF n = 0 THEN 0
    ELSE SumGaps(sb, n - 1) + (sb[n + 1][1] - sb[n][2])

\* the divisor of average_midsound_silence
GapDivisor(sb) == Len(sb)

\* a mutant of ExceedsPause: the average divided by the multiplier
ExceedsPause_divided(track_gap, sb, mult4) ==
    track_gap * GapDivisor(sb) * mult4 > SumGaps(sb, Len(sb) - 1) * 4

\* track_gap > average_midsound_silence * gap_multiplier, where the average is
\* SumGaps / GapDivisor and the multiplier is mult4 quarters
ExceedsPause(track_gap, sb, mult4) ==
    track_gap * GapDivisor(sb) * 4 > SumGaps(sb, Len(sb) - 1) * mult4

\* the state before the loop over enumerate(sound_boundaries)
TracksInit(sb) ==
    [track_boundaries |-> << >>, track_start |-> sb[1][1], track_end |-> sb[1][2]]

\* one pass of the loop
TrackStep(acc, sound_boundary, sb, mult4) ==
    LET track_gap == sound_boundary[1] - acc.track_end
    IN  IF ExceedsPause(track_gap, sb, mult4)
        THEN [track_boundaries |->
                  Append(acc.track_boundaries,
                         << acc.track_start, acc.track_end + (track_gap \div 2) >>),
              track_start |-> sound_boundary[1] - (track_gap \div 2),
              track_end |-> sound_boundary[2]]
        ELSE [acc EXCEPT !.track_end = sound_boundary[2]]

RECURSIVE TrackLoop(_, _, _)
\* the loop over the first n sound boundaries
TrackLoop(sb, n, mult4) ==
    IF n = 0 THEN TracksInit(sb)
    ELSE TrackStep(TrackLoop(sb, n - 1, mult4), sb[n], sb, mult4)

\* find_tracks(sound_boundaries, gap_multiplier)
find_tracks(sb, mult4) ==
    IF Len(sb) = 0 THEN Raised("ZeroDivisionError")
    ELSE IF \E i \in 1..Len(sb) : sb[i][1] = None THEN Raised("TypeError")
    ELSE
        LET done == TrackLoop(sb, Len(sb), mult4)
            tb == done.track_boundaries
        IN  IF tb = << >> THEN ReturnedNone
            ELSE IF tb[Len(tb)][2] < done.track_end
            THEN Returned(Append(tb, << tb[Len(tb)][2], done.track_end >>))
            ELSE Returned(tb)

---------------------------------------------------------------------------
(* Inputs *)

\* "00:03:00.00" and "00:00:02.50", split at ':'
DurationA ==
    << [int |-> << 0, 0 >>, frac |-> << >>], [int |-> << 0, 3 >>, frac |-> << >>],
       [int |-> << 0, 0 >>, frac |-> << 0, 0 >>] >>
DurationB ==
    << [int |-> << 0, 0 >>, frac |-> << >>], [int |-> << 0, 0 >>, frac |-> << >>],
       [int |-> << 0, 2 >>, frac |-> << 5, 0 >>] >>

EventTimes == { k * Half : k \in 0..MaxEventTime }
EventLines ==
    { StartLine(time) : time \in EventTimes }
        \cup { EndLine(time, Half) : time \in EventTimes }
Headers ==
    SeqsUpTo({ DurationLine(DurationA), DurationLine(DurationB) }, MaxDurationLines)
Bodies == SeqsUpTo(EventLines \cup { UnknownLine, OtherLine }, MaxEvents)

\* duration 00:03:00.00, silence_start: 1.0, silence_end: 1.5 | silence_duration: 0.5
ScenarioA ==
    << DurationLine(DurationA), StartLine(Scale), EndLine(3 * Half, Half) >>

Reports == { h \o b : h \in Headers, b \in Bodies } \cup { ScenarioA }

\* the reports main is run on: one Duration line, then silence events
MainReports ==
    { << DurationLine(DurationA) >> \o b : b \in SeqsUpTo(EventLines, MaxEvents) }

\* chapters of a video: none, or two
ChapterInputs == { << >>, << << 0, 2 * Half >>, << 2 * Half, 5 * Half >> >> }

TrackTimes == { k * Half : k \in 0..MaxTrackTime }
\* chronologically ordered, non-overlapping
WellOrdered(sb) ==
    \A i \in 1..Len(sb) :
        /\ sb[i][1] <= sb[i][2]
        /\ i < Len(sb) => sb[i][2] <= sb[i + 1][1]

\* [(0,10), (10.4,20)] and [(0,10), (15,20), (20.2,25)]
ScenarioB == << << 0, 10 * Scale >>, << (104 * Scale) \div 10, 20 * Scale >> >>
ScenarioC ==
    << << 0, 10 * Scale >>, << 15 * Scale, 20 * Scale >>,
       << (202 * Scale) \div 10, 25 * Scale >> >>

IntervalSeqs ==
    { sb \in SeqsUpTo({ p \in TrackTimes \X TrackTimes : p[1] <= p[2] }, MaxIntervals) :
        WellOrdered(sb) } \cup { ScenarioB, ScenarioC }

\* for mult in [1, 0.5, 1.5, 0.25, 2, 3, 4, 5], in quarters
MULTIPLIERS == << 4, 2, 6, 1, 8, 12, 16, 20 >>

Multipliers == { MULTIPLIERS[i] : i \in 1..Len(MULTIPLIERS) } \cup 1..MaxMultiplier

CodecSeconds == (0..MaxSeconds) \cup { 59, 60, 3599, 3600, 359999, 360000 }
CodecInputs == { b * Scale + off : b \in CodecSeconds, off \in 0..(Scale - 1) }

---------------------------------------------------------------------------
(* The parts of the state a specification does not use *)

IdleCodec == input_seconds = 0 /\ timestamp = << >> /\ seconds_back = None
IdleTracks ==
    /\ gap_multiplier = None /\ tracks_data = NotCalled
    /\ prev_multiplier = None /\ prev_tracks = NotCalled
IdleMain ==
    /\ chapters_data = << >> /\ pc = "idle" /\ mult_index = 1
    /\ is_ok = FALSE /\ calls = << >>

---------------------------------------------------------------------------
(* SpecCodec: format_time_from_seconds, then timestamp_to_seconds *)

InitCodec ==
    /\ input_seconds \in CodecInputs
    /\ timestamp = << >> /\ seconds_back = None
    /\ silence_data = << >> /\ sound_data = NotCalled
    /\ IdleTracks /\ IdleMain

Format ==
    /\ timestamp = << >>
    /\ timestamp' = format_time_from_seconds(input_seconds)
    /\ UNCHANGED << input_seconds, seconds_back, silence_data, sound_data,
                    tracks_vars, main_vars >>

Parse ==
    /\ timestamp # << >> /\ seconds_back = None
    /\ seconds_back' = timestamp_to_seconds(timestamp)
    /\ UNCHANGED << input_seconds, timestamp, silence_data, sound_data,
                    tracks_vars, main_vars >>

NextCodec == Format \/ Parse
SpecCodec == InitCodec /\ [][NextCodec]_vars

---------------------------------------------------------------------------
(* SpecBoundaries: get_sound_boundaries on a report *)

InitBoundaries ==
    /\ silence_data \in Reports
    /\ sound_data = NotCalled
    /\ IdleCodec /\ IdleTracks /\ IdleMain

CallGetSoundBoundaries ==
    /\ sound_data = NotCalled
    /\ sound_data' = get_sound_boundaries(silence_data)
    /\ UNCHANGED << silence_data, codec_vars, tracks_vars, main_vars >>

NextBoundaries == CallGetSoundBoundaries
SpecBoundaries == InitBoundaries /\ [][NextBoundaries]_vars

---------------------------------------------------------------------------
(* SpecTracks: find_tracks, called once and called again, on the same      *)
(* sound boundaries                                                        *)

InitTracks ==
    /\ silence_data = << >>
    /\ sound_data \in { Returned(sb) : sb \in IntervalSeqs }
    /\ IdleCodec /\ IdleTracks /\ IdleMain

CallFindTracks ==
    /\ prev_tracks = NotCalled
    /\ \E mult4 \in Multipliers :
        /\ gap_multiplier' = mult4
        /\ tracks_data' = find_tracks(sound_data.value, mult4)
    /\ prev_multiplier' = gap_multiplier
    /\ prev_tracks' = tracks_data
    /\ UNCHANGED << silence_data, sound_data, codec_vars, main_vars >>

NextTracks == CallFindTracks
SpecTracks == InitTracks /\ [][NextTracks]_vars

---------------------------------------------------------------------------
(* Spec: main() on a file, with or without chapters *)

\* one entry of calls
Call(op, mult, arg, answer) ==
    [op |-> op, mult |-> mult, arg |-> arg, answer |-> answer]

Init ==
    /\ \/ chapters_data = << >> /\ silence_data \in MainReports
       \/ chapters_data \in ChapterInputs \ { << >> } /\ silence_data = << >>
    /\ sound_data = NotCalled
    /\ pc = "start" /\ mult_index = 1 /\ is_ok = FALSE /\ calls = << >>
    /\ IdleCodec /\ IdleTracks

\* if chapters_data: the tracks are the chapters
UseChapters ==
    /\ pc = "start" /\ chapters_data # << >>
    /\ tracks_data' = Returned(chapters_data)
    /\ pc' = "confirm_chapters"
    /\ UNCHANGED << silence_data, sound_data, codec_vars, gap_multiplier,
                    prev_multiplier, prev_tracks, chapters_data, mult_index,
                    is_ok, calls >>

\* is_ok = confirm(); if not is_ok: return
ConfirmChapters ==
    /\ pc = "confirm_chapters"
    /\ \E answer \in BOOLEAN :
        /\ is_ok' = answer
        /\ calls' = Append(calls, Call("confirm", None, NotCalled, answer))
        /\ pc' = IF answer THEN "split" ELSE "returned"
    /\ UNCHANGED << silence_data, sound_data, codec_vars, tracks_vars,
                    chapters_data, mult_index >>

\* else: sound_data = get_sound_boundaries(get_silence_data(input_filename))
GetSoundData ==
    /\ pc = "start" /\ chapters_data = << >>
    /\ sound_data' = get_sound_boundaries(silence_data)
    /\ calls' = Append(calls, Call("get_sound_boundaries", None, NotCalled, FALSE))
    /\ pc' = IF sound_data'.status = "returned" THEN "find_tracks" ELSE "raised"
    /\ UNCHANGED << silence_data, codec_vars, tracks_vars, chapters_data,
                    mult_index, is_ok >>

\* tracks_data = find_tracks(sound_data, mult); print_tracks(tracks_data, None)
FindTracks ==
    /\ pc = "find_tracks"
    /\ gap_multiplier' = MULTIPLIERS[mult_index]
    /\ tracks_data' = find_tracks(sound_data.value, MULTIPLIERS[mult_index])
    /\ prev_multiplier' = gap_multiplier
    /\ prev_tracks' = tracks_data
    /\ calls' = Append(calls, Call("find_tracks", MULTIPLIERS[mult_index],
                                   sound_data, FALSE))
    /\ pc' = IF tracks_data'.status \in { "returned", "returned None" }
             THEN "confirm" ELSE "raised"
    /\ UNCHANGED << silence_data, sound_data, codec_vars, chapters_data,
                    mult_index, is_ok >>

\* a mutant of Confirm: no break, the loop goes on after an acceptance
Confirm_no_break ==
    /\ pc = "confirm"
    /\ \E answer \in BOOLEAN :
        /\ is_ok' = answer
        /\ calls' = Append(calls, Call("confirm", None, NotCalled, answer))
        /\ IF mult_index < Len(MULTIPLIERS)
           THEN pc' = "find_tracks" /\ mult_index' = mult_index + 1
           ELSE pc' = (IF answer THEN "split" ELSE "returned")
                /\ mult_index' = mult_index
    /\ UNCHANGED << silence_data, sound_data, codec_vars, tracks_vars,
                    chapters_data >>

\* is_ok = confirm(); if is_ok: break; after the loop, if not is_ok: return
Confirm ==
    /\ pc = "confirm"
    /\ \E answer \in BOOLEAN :
        /\ is_ok' = answer
        /\ calls' = Append(calls, Call("confirm", None, NotCalled, answer))
        /\ IF answer
           THEN pc' = "split" /\ mult_index' = mult_index
           ELSE IF mult_index < Len(MULTIPLIERS)
           THEN pc' = "find_tracks" /\ mult_index' = mult_index + 1
           ELSE pc' = "returned" /\ mult_index' = mult_index
    /\ UNCHANGED << silence_data, sound_data, codec_vars, tracks_vars,
                    chapters_data >>

\* split_file_into_tracks(input_filename, tracks_data, filenames): it raises on
\* enumerate(None), and when ffmpeg quits with an error
SplitFileIntoTracks ==
    /\ pc = "split"
    /\ calls' = Append(calls, Call("split_file_into_tracks", None, tracks_data, FALSE))
    /\ IF tracks_data.status = "returned None"
       THEN pc' = "raised"
       ELSE pc' \in { "finished", "raised" }
    /\ UNCHANGED << silence_data, sound_data, codec_vars, tracks_vars,
                    chapters_data, mult_index, is_ok >>

Next ==
    \/ UseChapters
    \/ ConfirmChapters
    \/ GetSoundData
    \/ FindTracks
    \/ Confirm
    \/ SplitFileIntoTracks

Spec == Init /\ [][Next]_vars

---------------------------------------------------------------------------
(* Properties of the timestamp codec, under SpecCodec *)

\* C8: timestamp_to_seconds(format_time_from_seconds(t)) is never greater than
\* t and differs from it by less than a hundredth of a second.
C8_RoundTrip ==
    seconds_back # None =>
        /\ seconds_back <= input_seconds
        /\ (input_seconds - seconds_back) * 100 < Scale

\* a time of an hour or more whose fraction is truncated to under a tenth
C8_Witness ==
    /\ seconds_back # None
    /\ input_seconds >= 60 * 60 * Scale
    /\ seconds_back < input_seconds
    /\ timestamp[3].frac[1] = 0 /\ timestamp[3].frac[2] # 0

---------------------------------------------------------------------------
(* Properties of get_sound_boundaries, under SpecBoundaries *)

\* the silence events of the report and the duration the code parsed
Events == ParseLines(silence_data, Len(silence_data)).interval_data
FileEnd == ParseLines(silence_data, Len(silence_data)).file_end

IsStart(interval) == interval.start # None
IsEnd(interval) == interval.end # None
EventTime(interval) == IF IsStart(interval) THEN interval.start ELSE interval.end

\* the interior silence starts with a non-zero time
InteriorStarts ==
    { i \in 2..(Len(Events) - 1) : IsStart(Events[i]) /\ Events[i].start # 0 }

\* C1: with two events or more, a last silence end is followed by the trailing
\* interval (that silence end, duration), and a last silence start by none:
\* the first interval and those of the interior silence starts are all there
\* is.  Scenario A yields [(0, 1.0), (1.5, 180.0)].
C1_TrailingInterval ==
    (sound_data.status = "returned" /\ Len(Events) >= 2) =>
        LET last == Events[Len(Events)]
            value == sound_data.value
        IN  /\ IsEnd(last) =>
                /\ value # << >>
                /\ value[Len(value)] = << last.end, FileEnd >>
            /\ IsStart(last) => Len(value) = 1 + Cardinality(InteriorStarts)
            /\ silence_data = ScenarioA =>
                value = << << 0, Scale >>, << 3 * Half, 180 * Scale >> >>

\* alternating silence starts and ends beginning with a start, times
\* non-decreasing and within [0, duration]
WellFormedEvents ==
    /\ FileEnd # None
    /\ \A i \in 1..Len(Events) :
        /\ IsStart(Events[i]) <=> i % 2 = 1
        /\ 0 <= EventTime(Events[i]) /\ EventTime(Events[i]) <= FileEnd
        /\ i > 1 => EventTime(Events[i - 1]) <= EventTime(Events[i])

\* C5: every interval emitted for a well-formed event sequence has
\* start < end, also when the first silence start is at time 0.
C5_ProperIntervals ==
    (sound_data.status = "returned" /\ WellFormedEvents) =>
        \A i \in 1..Len(sound_data.value) :
            /\ sound_data.value[i][1] # None
            /\ sound_data.value[i][1] < sound_data.value[i][2]

\* an interior silence start with a non-zero time comes before any silence end
StartBeforeAnyEnd ==
    \E i \in InteriorStarts : \A j \in 1..(i - 1) : ~IsEnd(Events[j])

\* C9: an interior non-zero silence start reached before any silence end makes
\* get_sound_boundaries fail: it returns no interval list.
C9_InconsistentSequenceFails ==
    (sound_data # NotCalled /\ StartBeforeAnyEnd) =>
        sound_data.status \notin { "returned", "returned None" }

\* the Duration lines of the report, by position
DurationLines == { i \in 1..Len(silence_data) : silence_data[i].kind = "Duration" }
FirstDuration ==
    LET i == CHOOSE i \in DurationLines : \A j \in DurationLines : i <= j
    IN  timestamp_to_seconds(silence_data[i].text)
LastDuration ==
    LET i == CHOOSE i \in DurationLines : \A j \in DurationLines : j <= i
    IN  timestamp_to_seconds(silence_data[i].text)

\* the trailing interval (previous_silence_end, file_end) was appended
TrailingEmitted ==
    /\ sound_data.status = "returned"
    /\ Len(Events) >= 2
    /\ Events[Len(Events)].end = None

\* C10 as stated: the duration of the trailing interval is that of the first
\* Duration line.
C10_FirstDurationWins ==
    TrailingEmitted =>
        sound_data.value[Len(sound_data.value)][2] = FirstDuration

\* C10, amended: the duration of the trailing interval is that of the last
\* Duration line; earlier Duration lines do not change it.
C10_LastDurationWins ==
    TrailingEmitted =>
        sound_data.value[Len(sound_data.value)][2] = LastDuration

\* a trailing interval after two Duration lines that differ
C10_Witness ==
    /\ TrailingEmitted
    /\ Cardinality(DurationLines) >= 2
    /\ FirstDuration # LastDuration
    /\ WellFormedEvents
    /\ \A i \in 1..Len(sound_data.value) :
        sound_data.value[i][1] < sound_data.value[i][2]

---------------------------------------------------------------------------
(* Properties of find_tracks, under SpecTracks *)

\* the gap before interval i and the sum of all gaps
Gap(sb, i) == sb[i][1] - sb[i - 1][2]
\* the ends of all tracks but the last: where the recording is split
SplitPoints(value) == { value[i][2] : i \in 1..(Len(value) - 1) }

\* C2: a split is made before an interval exactly when its gap strictly
\* exceeds multiplier * (sum of gaps / (N - 1)); Scenario B with multiplier 1
\* is the single track (0, 20).
C2_MeanOverPairs ==
    (tracks_data # NotCalled /\ Len(sound_data.value) >= 2) =>
        LET sb == sound_data.value
            N == Len(sb)
            wanted == { i \in 2..N :
                          Gap(sb, i) * (N - 1) * 4 > SumGaps(sb, N - 1) * gap_multiplier }
        IN  /\ tracks_data.status \in { "returned", "returned None" }
            /\ SplitPoints(tracks_data.value) =
                   { sb[i - 1][2] + Gap(sb, i) \div 2 : i \in wanted }
            /\ (sb = ScenarioB /\ gap_multiplier = 4) =>
                   tracks_data = Returned(<< << 0, 20 * Scale >> >>)

\* chronologically ordered, non-overlapping intervals, each with start < end
ProperIntervals(sb) ==
    WellOrdered(sb) /\ \A i \in 1..Len(sb) : sb[i][1] < sb[i][2]

\* C3: for two or more proper intervals find_tracks returns a non-empty list
\* of tracks that starts at the first interval's start, ends at the last
\* interval's end and has no hole.
C3_Coverage ==
    (tracks_data # NotCalled /\ Len(sound_data.value) >= 2
        /\ ProperIntervals(sound_data.value)) =>
        LET sb == sound_data.value
            tb == tracks_data.value
        IN  /\ tracks_data.status = "returned"
            /\ tb # << >>
            /\ tb[1][1] = sb[1][1]
            /\ tb[Len(tb)][2] = sb[Len(sb)][2]
            /\ \A i \in 1..(Len(tb) - 1) : tb[i][2] = tb[i + 1][1]

\* C4: with fewer than two intervals find_tracks fails: it does not return.
C4_InsufficientData ==
    (tracks_data # NotCalled /\ Len(sound_data.value) < 2) =>
        tracks_data.status \notin { "returned", "returned None" }

\* the number of tracks of an outcome, none counted as zero
TrackCount(outcome) ==
    IF outcome.status = "returned" THEN Len(outcome.value) ELSE 0

\* C6: of two calls on the same sound boundaries, the one with the greater
\* multiplier does not produce more tracks.
C6_Monotonic ==
    (prev_tracks # NotCalled /\ WellOrdered(sound_data.value)) =>
        /\ prev_multiplier <= gap_multiplier =>
               TrackCount(tracks_data) <= TrackCount(prev_tracks)
        /\ gap_multiplier <= prev_multiplier =>
               TrackCount(prev_tracks) <= TrackCount(tracks_data)

\* three tracks of proper intervals with one multiplier, fewer with a greater one
C6_Witness ==
    /\ prev_tracks # NotCalled
    /\ prev_multiplier < gap_multiplier
    /\ TrackCount(prev_tracks) = 3
    /\ TrackCount(tracks_data) < 3
    /\ ProperIntervals(sound_data.value)

---------------------------------------------------------------------------
(* Properties of main's approval loop, under Spec *)

CallsOf(op) == SelectSeq(calls, LAMBDA c : c.op = op)

\* C7: on the silence path find_tracks is called with the multipliers
\* 1, 0.5, 1.5, 0.25, 2, 3, 4, 5 in this order, each after the rejection of all
\* earlier candidates and none after an acceptance; split_file_into_tracks is
\* called only after an acceptance, with the tracks of the accepted
\* multiplier, and never after eight rejections; the report is parsed once and
\* every attempt is given the same sound boundaries.
C7_ApprovalLoop ==
    chapters_data = << >> =>
        LET tried == CallsOf("find_tracks")
            answers == CallsOf("confirm")
            cuts == CallsOf("split_file_into_tracks")
            order == << 4, 2, 6, 1, 8, 12, 16, 20 >>
        IN  /\ Len(tried) <= 8
            /\ \A i \in 1..Len(tried) :
                /\ tried[i].mult = order[i]
                /\ tried[i].arg = sound_data
                /\ \A j \in 1..(i - 1) : Len(answers) >= j /\ ~answers[j].answer
            /\ Len(answers) <= Len(tried)
            /\ \A j \in 1..Len(answers) : answers[j].answer => Len(tried) = j
            /\ Len(cuts) <= 1
            /\ cuts # << >> =>
                /\ answers # << >>
                /\ answers[Len(answers)].answer
                /\ calls[Len(calls) - 1] = answers[Len(answers)]
                /\ cuts[1].arg =
                       find_tracks(sound_data.value, order[Len(answers)])
            /\ (Len(answers) = 8 /\ \A j \in 1..8 : ~answers[j].answer) =>
                   cuts = << >> /\ pc = "returned"
            /\ Len(CallsOf("get_sound_boundaries")) <= 1

\* the cut runs with the tracks found for 0.25, after three rejections
C7_Witness ==
    /\ chapters_data = << >>
    /\ pc = "finished"
    /\ Len(CallsOf("confirm")) = 4
    /\ calls[Len(calls)].arg.status = "returned"
    /\ Len(calls[Len(calls)].arg.value) >= 2

===========================================================================
